---- MODULE Spec2Model ----
(***************************************************************************)
(* Model of the Quarri MCP server: the credential store (token-store.ts),  *)
(* the remote call adapter (api/client.ts), the tool registry              *)
(* (tools/definitions.ts), the dispatcher (index.ts) and the auth CLI      *)
(* (auth-cli.ts) that writes the same credential file from another         *)
(* process.                                                                *)
(*                                                                         *)
(* Time is a discrete clock `now`; a timestamp (expiresAt) is an instant   *)
(* of that clock.  Every read of the credential file and every await of    *)
(* the dispatcher is a step of its own, so that the clock and the other    *)
(* process may act in between.                                             *)
(***************************************************************************)
EXTENDS Integers, Sequences, FiniteSets, TLC

\* Last instant of the clock.
MaxTime == 2

\* Largest number of rows in a query result.
MaxRows == 25

\* The request slots of the server: the invocation followed through the
\* dispatcher and a second one handled concurrently with it.
Invs == {1, 2}

(***************************************************************************)
(* JavaScript values                                                       *)
(***************************************************************************)
\* JS null, as returned by loadCredentials / getSelectedDatabase.
Null == [type |-> "null"]

\* JS undefined in a string-typed position (an absent optional property).
Undefined == "<undefined>"

\* QuarriApiClient.token before any setToken.
NoToken == [id |-> 0, exp |-> 0]

\* JS truthiness of a string-typed value.
Truthy(s) == s # Undefined /\ s # ""

\* JSON values of a backend payload, by their JavaScript type.
UndefinedValue == [type |-> "undefined"]
Str(value) == [type |-> "string", value |-> value]
Num(value) == [type |-> "number", value |-> value]
Arr(items) == [type |-> "array", items |-> items]
Obj(props) == [type |-> "object", props |-> props]

\* The truthiness of such a value: arrays and objects are truthy, also
\* when empty.
ToBoolean(v) ==
  /\ v.type \notin {"undefined", "null"}
  /\ ~(v.type = "string" /\ v.value = "")
  /\ ~(v.type = "number" /\ v.value = 0)

\* v[key] for a value that is neither null nor undefined: the property of
\* an object, undefined when the object lacks it or the value is a
\* primitive.
Get(v, key) ==
  IF v.type = "object" /\ key \in DOMAIN v.props THEN v.props[key] ELSE UndefinedValue

\* result[key] of a parsed body.
Prop(result, key) == IF key \in DOMAIN result THEN result[key] ELSE UndefinedValue

(***************************************************************************)
(* The backend's data: sessions and databases                              *)
(***************************************************************************)
\* A bearer token names a backend session together with the instant the
\* backend lets it expire (AuthResponse.token / AuthResponse.expiresAt);
\* there is one session per instant of expiry.
Tokens == {[id |-> e, exp |-> e] : e \in 1..MaxTime}

Email(role) == IF role = "super_admin" THEN "admin@quarri.ai" ELSE "user@quarri.ai"

SalesDb == [database_name |-> "sales_db", display_name |-> "Sales", access_level |-> "read"]

OpsDb == [database_name |-> "ops_db", display_name |-> "Ops", access_level |-> "write"]

\* An entry whose display name is the internal name of another entry.
AliasDb == [database_name |-> "archive_db", display_name |-> "ops_db", access_level |-> "read"]

\* The accounts of the backend: AuthResponse.user.role and
\* AuthResponse.databases.
Accounts ==
  {[role |-> "user", databases |-> <<SalesDb, OpsDb>>],
   [role |-> "user", databases |-> <<>>],
   [role |-> "super_admin", databases |-> <<AliasDb, OpsDb>>]}

\* Arguments given to quarri_select_database; Undefined is an argument map
\* without database_name.
DbArgs == {"Sales", "ops_db", "nope", Undefined}

(***************************************************************************)
(* Credential store (token-store.ts)                                       *)
(***************************************************************************)
\* StoredCredentials as an in-memory object.
Credentials(token, role, dbs, sel) ==
  [type |-> "object", token |-> token, email |-> Email(role), role |-> role,
   databases |-> dbs, selectedDatabase |-> sel, expiresAt |-> token.exp]

\* Contents of ~/.quarri/credentials.
NoFile == [kind |-> "missing"]

\* A file whose text is not JSON.
GarbageFile == [kind |-> "text"]

\* A file holding the JSON text `null`.
NullFile == [kind |-> "json_null"]

\* A file holding the JSON text `{}`: an object with none of the fields of
\* StoredCredentials.
BareObjectFile == [kind |-> "json_bare"]

\* What JSON.parse gives for it: every property read is undefined.
BareObject == [type |-> "bare"]

\* JSON.stringify(credentials, null, 2): a property whose value is
\* undefined is left out of the text.
JSONstringify(c) ==
  IF c.selectedDatabase = Undefined
  THEN [kind |-> "json_object",
        fields |-> [token |-> c.token, email |-> c.email, role |-> c.role,
                    databases |-> c.databases, expiresAt |-> c.expiresAt]]
  ELSE [kind |-> "json_object",
        fields |-> [token |-> c.token, email |-> c.email, role |-> c.role,
                    databases |-> c.databases,
                    selectedDatabase |-> c.selectedDatabase,
                    expiresAt |-> c.expiresAt]]

\* JSON.parse losing the optional property.
JSONparse_dropSelection(f) ==
  [type |-> "object", token |-> f.fields.token, email |-> f.fields.email,
   role |-> f.fields.role, databases |-> f.fields.databases,
   selectedDatabase |-> Undefined, expiresAt |-> f.fields.expiresAt]

\* JSON.parse(content) of an object text; reading a property the text does
\* not have yields undefined.
JSONparse(f) ==
  [type |-> "object", token |-> f.fields.token, email |-> f.fields.email,
   role |-> f.fields.role, databases |-> f.fields.databases,
   selectedDatabase |-> IF "selectedDatabase" \in DOMAIN f.fields
                        THEN f.fields.selectedDatabase ELSE Undefined,
   expiresAt |-> f.fields.expiresAt]

\* loadCredentials(): null for a missing file, for a text JSON.parse rejects
\* (SyntaxError caught), for JSON null (TypeError on .expiresAt caught) and
\* for an expired record; the file is left as it is.  An object without
\* expiresAt skips the expiry check and is returned as it was parsed.
loadCredentials(f, t) ==
  IF f.kind = "json_bare" THEN BareObject
  ELSE IF f.kind # "json_object" THEN Null
  ELSE LET credentials == JSONparse(f)
       IN IF credentials.expiresAt < t THEN Null ELSE credentials

\* loadExpiredEmail without the expiry test.
loadExpiredEmail_anyRecord(f, t) ==
  IF f.kind # "json_object" THEN Null
  ELSE [type |-> "string", value |-> JSONparse(f).email]

\* loadExpiredEmail(): the email of a stored record whose expiresAt is in
\* the past; null for a missing file, for a text JSON.parse rejects, for
\* JSON null (both caught), for an object without expiresAt and for a
\* record that is not expired.
loadExpiredEmail(f, t) ==
  IF f.kind # "json_object" THEN Null
  ELSE LET credentials == JSONparse(f)
       IN IF credentials.expiresAt < t /\ Truthy(credentials.email)
          THEN [type |-> "string", value |-> credentials.email]
          ELSE Null

\* saveCredentials(credentials): the new content of the file.
saveCredentials(c) == JSONstringify(c)

\* fs.unlinkSync(CREDENTIALS_FILE): removes the file; ENOENT is thrown
\* when there is none.
unlinkSync(f) == [file |-> NoFile, threw |-> (f.kind = "missing")]

\* clearCredentials without the existsSync guard and the catch.
clearCredentials_noGuard(f) == unlinkSync(f)

\* clearCredentials(): unlink when the file exists, nothing otherwise; an
\* error of the unlink is caught and logged.
clearCredentials(f) ==
  IF f.kind # "missing"
  THEN [file |-> IF unlinkSync(f).threw THEN f ELSE unlinkSync(f).file, threw |-> FALSE]
  ELSE [file |-> f, threw |-> FALSE]

\* getSelectedDatabase ignoring the stored selection.
getSelectedDatabase_first(f, t) ==
  LET credentials == loadCredentials(f, t)
  IN IF credentials = Null THEN Null
     ELSE IF credentials = BareObject THEN Null
     ELSE IF Len(credentials.databases) > 0
          THEN [type |-> "string", value |-> credentials.databases[1].database_name]
     ELSE Null

\* getSelectedDatabase(): an object with neither selectedDatabase nor
\* databases gives null.
getSelectedDatabase(f, t) ==
  LET credentials == loadCredentials(f, t)
  IN IF credentials = Null THEN Null
     ELSE IF credentials = BareObject THEN Null
     ELSE IF Truthy(credentials.selectedDatabase)
          THEN [type |-> "string", value |-> credentials.selectedDatabase]
     ELSE IF Len(credentials.databases) > 0
          THEN [type |-> "string", value |-> credentials.databases[1].database_name]
     ELSE Null

\* Array.prototype.find over credentials.databases: the index of the first
\* entry whose database_name or display_name is the argument, 0 when none.
findDatabase(dbs, databaseName) ==
  LET hits == {k \in 1..Len(dbs) : \/ dbs[k].database_name = databaseName
                                   \/ dbs[k].display_name = databaseName}
  IN IF hits = {} THEN 0 ELSE CHOOSE k \in hits : \A j \in hits : k <= j

\* setSelectedDatabase(databaseName), from the record it loaded: whether
\* credentials.databases.find throws (TypeError, databases is undefined).
setSelectedDatabaseThrows(credentials) == credentials = BareObject

\* setSelectedDatabase without the membership check.
setSelectedDatabaseOk_noCheck(credentials, databaseName) == credentials # Null

\* setSelectedDatabase(databaseName), from the record it loaded: whether it
\* goes on to save (the function's return value).
setSelectedDatabaseOk(credentials, databaseName) ==
  /\ credentials # Null
  /\ \/ findDatabase(credentials.databases, databaseName) # 0
     \/ credentials.role = "super_admin"

\* setSelectedDatabase storing its argument as given.
setSelectedDatabaseRecord_raw(credentials, databaseName) ==
  [credentials EXCEPT !.selectedDatabase = databaseName]

\* setSelectedDatabase(databaseName): the record it saves.
setSelectedDatabaseRecord(credentials, databaseName) ==
  LET k == findDatabase(credentials.databases, databaseName)
  IN [credentials EXCEPT !.selectedDatabase =
        IF k # 0 THEN credentials.databases[k].database_name ELSE databaseName]

(***************************************************************************)
(* Tool registry (tools/definitions.ts)                                    *)
(***************************************************************************)
TOOL_NAME_MAP ==
  [
   quarri_trial_status |-> "trial_status",
   quarri_get_query_context |-> "get_query_context",
   quarri_execute_sql |-> "execute_sql",
   quarri_get_schema |-> "get_schema",
   quarri_search_values |-> "search_values",
   quarri_get_metrics |-> "get_metrics",
   quarri_create_metric |-> "create_metric",
   quarri_approve_metric |-> "approve_metric",
   quarri_get_metric_detail |-> "get_metric_detail",
   quarri_search_metrics |-> "search_metrics",
   quarri_list_rules |-> "list_rules",
   quarri_create_rule |-> "create_rule",
   quarri_update_rule |-> "update_rule",
   quarri_delete_rule |-> "delete_rule",
   quarri_vectorize_column_values |-> "vectorize_column_values",
   quarri_list_searchable_columns |-> "list_searchable_columns",
   quarri_list_teams |-> "list_teams",
   quarri_get_team_filters |-> "get_team_filters",
   quarri_get_team_restrictions |-> "get_team_restrictions",
   quarri_list_extraction_sources |-> "list_extraction_sources",
   quarri_configure_extraction |-> "configure_extraction",
   quarri_discover_tables |-> "discover_tables",
   quarri_propose_transformation |-> "propose_transformation",
   quarri_upload_csv |-> "upload_csv",
   quarri_generate_quarri_schema |-> "generate_quarri_schema",
   quarri_list_raw_tables |-> "list_raw_tables",
   quarri_execute_ddl |-> "execute_ddl",
   quarri_execute_dml |-> "execute_dml",
   quarri_query_model_data |-> "query_model_data",
   quarri_list_staging_tables |-> "list_staging_tables",
   quarri_introspect_table |-> "introspect_table",
   quarri_execute_staging_view |-> "execute_staging_view",
   quarri_execute_silver_view |-> "execute_silver_view",
   quarri_register_transformation |-> "register_transformation",
   quarri_get_staging_lineage |-> "get_staging_lineage",
   quarri_refresh_schema |-> "refresh_schema",
   quarri_save_model_plan |-> "save_model_plan",
   quarri_detect_relationships |-> "detect_relationships",
   quarri_set_relationship |-> "set_relationship",
   quarri_get_relationships |-> "get_relationships",
   quarri_read_server_logs |-> "read_server_logs",
   quarri_query_repl_activity |-> "query_repl_activity",
   quarri_read_fly_logs |-> "read_fly_logs",
   quarri_log_analysis_run |-> "log_analysis_run",
   quarri_schedule_extraction |-> "schedule_extraction",
   quarri_store_generated_code |-> "store_generated_code",
   quarri_get_connector_code |-> "get_connector_code",
   quarri_get_connector_logs |-> "get_connector_logs",
   quarri_update_connector_code |-> "update_connector_code",
   quarri_create_environment |-> "create_environment",
   quarri_list_environments |-> "list_environments",
   quarri_delete_environment |-> "delete_environment",
   quarri_promote_environment |-> "promote_environment",
   quarri_rollback_production |-> "rollback_production",
   quarri_list_production_snapshots |-> "list_production_snapshots",
   quarri_create_skill |-> "create_skill",
   quarri_search_skills |-> "search_skills",
   quarri_list_skills |-> "list_skills",
   quarri_get_skill |-> "get_skill",
   quarri_update_skill |-> "update_skill",
   quarri_delete_skill |-> "delete_skill",
   quarri_record_skill_usage |-> "record_skill_usage"
  ]

\* Property names every plain JS object inherits from Object.prototype.
ObjectPrototypeKeys == {"constructor", "toString", "valueOf", "hasOwnProperty", "__proto__"}

\* getBackendToolName(mcpToolName): TOOL_NAME_MAP[mcpToolName] ?? null.  The
\* map is a plain object literal, so the lookup of an inherited property
\* name yields the inherited member, which is neither null nor undefined.
getBackendToolName(mcpToolName) ==
  IF mcpToolName \in DOMAIN TOOL_NAME_MAP
  THEN [type |-> "string", value |-> TOOL_NAME_MAP[mcpToolName]]
  ELSE IF mcpToolName \in ObjectPrototypeKeys
  THEN [type |-> "inherited", value |-> mcpToolName]
  ELSE Null

\* Tool names the dispatcher handles itself, before the registry lookup.
LocalTools == {"quarri_auth_status", "quarri_list_databases",
               "quarri_select_database", "quarri_trial_status"}

\* The names of TOOL_DEFINITIONS, the tools the listing advertises: the
\* keys of TOOL_NAME_MAP, the three tools only the dispatcher knows, and
\* the two re-authentication tools.
TOOL_DEFINITIONS ==
  DOMAIN TOOL_NAME_MAP \cup
  {"quarri_auth_status", "quarri_list_databases", "quarri_select_database",
   "quarri_request_reauth", "quarri_complete_reauth"}

\* Tool names invoked in the model: the local tools, a registered remote
\* tool, a listed tool the map lacks, a name differing in case only, an
\* inherited property name and a name nothing knows.
InvokedNames == LocalTools \cup
  {"quarri_execute_sql", "quarri_request_reauth", "QUARRI_EXECUTE_SQL",
   "constructor", "no_such_tool"}

(***************************************************************************)
(* Remote call adapter (api/client.ts)                                     *)
(***************************************************************************)
DEFAULT_TIMEOUT == 60000

\* Response bodies: a text response.json() rejects, JSON null, and JSON
\* objects with or without an `error` and a `success` property.
Bodies ==
  {[json |-> "invalid"], [json |-> "null"],
   [json |-> "object", error |-> Undefined, success |-> "true"],
   [json |-> "object", error |-> Undefined, success |-> "absent"],
   [json |-> "object", error |-> "quota exceeded", success |-> "false"]}

\* Row k of a query result: an object with the keys id and total, in that
\* order.
Row(k) == [id |-> k, total |-> 10 * k]

\* Object.keys of such a row.
ObjectKeys(row) == <<"id", "total">>

\* Numbers of rows of the query results.
RowCounts == {0, 1, 20, 21, MaxRows}

\* Bodies of a successful quarri_execute_sql: the rows, with or without the
\* column list (given in an order of its own).
TableBodies ==
  {[json |-> "object", error |-> Undefined, success |-> "true",
    rows |-> Arr([k \in 1..n |-> Row(k)])] : n \in RowCounts} \cup
  {[json |-> "object", error |-> Undefined, success |-> "true",
    rows |-> Arr([k \in 1..n |-> Row(k)]),
    columns |-> Arr(<<"total", "id">>)] : n \in RowCounts}

StatusText(status) ==
  IF status = 200 THEN "OK"
  ELSE IF status = 404 THEN "Not Found"
  ELSE "Internal Server Error"

\* What fetch() and response.json() can come to: the timer aborts the
\* fetch, the fetch rejects for another reason, or a response arrives.
FetchOutcomes ==
  {[kind |-> "abort", name |-> "AbortError", message |-> "This operation was aborted"],
   [kind |-> "network", name |-> "TypeError", message |-> "fetch failed"]} \cup
  [kind : {"response"}, status : {200, 404, 500}, body : Bodies] \cup
  [kind : {"response"}, status : {200}, body : TableBodies]

\* response.ok
responseOk(status) == status >= 200 /\ status <= 299

\* ApiResponse values; `threw` marks an exception leaving request().
Failure(error) == [threw |-> FALSE, success |-> FALSE, error |-> error]

Success(data) == [threw |-> FALSE, success |-> TRUE, data |-> data]

\* The catch block without the AbortError case.
requestCatch_noAbort(name, message, timeout) == Failure(message)

\* The catch block of request().
requestCatch(name, message, timeout) ==
  IF name = "AbortError"
  THEN Failure("Request timeout after " \o ToString(timeout \div 1000) \o "s")
  ELSE Failure(message)

\* QuarriApiClient.request, from the fetch on: the value it resolves to.
request(outcome, timeout) ==
  IF outcome.kind # "response"
  THEN requestCatch(outcome.name, outcome.message, timeout)
  ELSE IF outcome.body.json = "invalid"
  THEN requestCatch("SyntaxError", "Unexpected token < in JSON at position 0", timeout)
  ELSE IF ~responseOk(outcome.status)
  THEN IF outcome.body.json = "null"
       THEN requestCatch("TypeError", "Cannot read properties of null (reading 'error')", timeout)
       ELSE IF Truthy(outcome.body.error)
       THEN Failure(outcome.body.error)
       ELSE Failure("HTTP " \o ToString(outcome.status) \o ": " \o StatusText(outcome.status))
  ELSE Success(outcome.body)

\* The Authorization header request() builds: `Bearer <token>` when useAuth
\* and a token is set, none otherwise.
authorization(useAuth, token) == IF useAuth /\ token # NoToken THEN token ELSE NoToken

NoCall == [sent |-> FALSE]

\* The HTTP request as it leaves request().
HttpCall(method, path, body, useAuth, token) ==
  [sent |-> TRUE, method |-> method, path |-> path, body |-> body,
   authorization |-> authorization(useAuth, token)]

\* executeTool's body: {args} plus database_name when one is given.
executeToolBody(args, databaseName) ==
  IF databaseName = Null THEN [args |-> args]
  ELSE [args |-> args, database_name |-> databaseName.value]

\* `/api/cli/tool/${toolName}`
executeToolPath(backendToolName) ==
  IF backendToolName.type = "string"
  THEN "/api/cli/tool/" \o backendToolName.value
  ELSE "/api/cli/tool/[inherited " \o backendToolName.value \o "]"

(***************************************************************************)
(* Response formatter (index.ts)                                           *)
(***************************************************************************)
\* An error text that drops the message it is given.
formatErrorResponse_generic(error) == <<"Error: ", "Unknown error">>

\* formatErrorResponse(error): `Error: ${error}`, as prefix and message.
formatErrorResponse(error) == <<"Error: ", error>>

\* rows.slice(0, 20): the number of rows a table shows.
DisplayedRows == 20

\* String(row[col] ?? '')
Cell(row, col) == IF col \in DOMAIN row THEN ToString(row[col]) ELSE ""

\* The table without the truncation of the rows.
formatTable_noCap(columns, rows) ==
  [kind |-> "table",
   header |-> columns,
   separator |-> [c \in 1..Len(columns) |-> "---"],
   dataRows |-> [k \in 1..Len(rows) |->
                   [c \in 1..Len(columns) |-> Cell(rows[k], columns[c])]],
   footer |-> IF Len(rows) > DisplayedRows
              THEN <<"... and ", ToString(Len(rows) - DisplayedRows), " more rows">>
              ELSE <<>>]

\* The text table of formatToolResponse: the header line, the separator
\* line, one line per row of the first 20, and the notice of the rows left
\* out.
formatTable(columns, rows) ==
  [kind |-> "table",
   header |-> columns,
   separator |-> [c \in 1..Len(columns) |-> "---"],
   dataRows |-> [k \in 1..(IF Len(rows) < DisplayedRows THEN Len(rows) ELSE DisplayedRows) |->
                   [c \in 1..Len(columns) |-> Cell(rows[k], columns[c])]],
   footer |-> IF Len(rows) > DisplayedRows
              THEN <<"... and ", ToString(Len(rows) - DisplayedRows), " more rows">>
              ELSE <<>>]

\* A TypeError thrown inside formatToolResponse.
FormatThrew(message) == [kind |-> "threw", name |-> "TypeError", message |-> message]

\* The quarri_execute_sql arm: `result.columns || Object.keys(rows[0])`,
\* the no-results text, else the table; columns.join and columns.map exist
\* only on an array.
formatRows(result) ==
  LET rows == result.rows.items
      given == Prop(result, "columns")
  IN IF Len(rows) = 0
     THEN [kind |-> "literal", text |-> "No results returned."]
     ELSE IF ~ToBoolean(given)
     THEN formatTable(ObjectKeys(rows[1]), rows)
     ELSE IF given.type # "array"
     THEN FormatThrew("columns.join is not a function")
     ELSE formatTable(given.items, rows)

\* The quarri_get_schema arm: tables.map(t => t.name, t.columns.map(c =>
\* c.name, c.type)), with no test of what tables, t or t.columns are.
formatSchema(tables) ==
  IF tables.type # "array"
  THEN FormatThrew("tables.map is not a function")
  ELSE IF \E k \in 1..Len(tables.items) : tables.items[k].type \in {"null", "undefined"}
  THEN FormatThrew("Cannot read properties of null (reading 'name')")
  ELSE IF \E k \in 1..Len(tables.items) :
            Get(tables.items[k], "columns").type \in {"null", "undefined"}
  THEN FormatThrew("Cannot read properties of undefined (reading 'map')")
  ELSE IF \E k \in 1..Len(tables.items) : Get(tables.items[k], "columns").type # "array"
  THEN FormatThrew("t.columns.map is not a function")
  ELSE IF \E k \in 1..Len(tables.items) :
            \E c \in 1..Len(Get(tables.items[k], "columns").items) :
              Get(tables.items[k], "columns").items[c].type \in {"null", "undefined"}
  THEN FormatThrew("Cannot read properties of null (reading 'name')")
  ELSE [kind |-> "schema",
        tables |-> [k \in 1..Len(tables.items) |->
          [name |-> Get(tables.items[k], "name"),
           columns |-> [c \in 1..Len(Get(tables.items[k], "columns").items) |->
              [name |-> Get(Get(tables.items[k], "columns").items[c], "name"),
               type |-> Get(Get(tables.items[k], "columns").items[c], "type")]]]]]

\* i.finding || i.description || i.insight || ''
insightContent(i) ==
  IF ToBoolean(Get(i, "finding")) THEN Get(i, "finding")
  ELSE IF ToBoolean(Get(i, "description")) THEN Get(i, "description")
  ELSE IF ToBoolean(Get(i, "insight")) THEN Get(i, "insight")
  ELSE Str("")

\* The insights part of quarri_query_with_analysis: a numbered list for an
\* array (a string entry as it is, any other entry by its title and
\* content), the text for a string, JSON for anything else.
formatInsights(insights) ==
  IF insights.type = "array"
  THEN IF \E k \in 1..Len(insights.items) : insights.items[k].type \in {"null", "undefined"}
       THEN FormatThrew("Cannot read properties of null (reading 'title')")
       ELSE [part |-> "insights", kind |-> "list",
             entries |-> [k \in 1..Len(insights.items) |->
               IF insights.items[k].type = "string"
               THEN [index |-> k, text |-> insights.items[k]]
               ELSE [index |-> k,
                     title |-> IF ToBoolean(Get(insights.items[k], "title"))
                               THEN Get(insights.items[k], "title") ELSE Str("Insight"),
                     content |-> insightContent(insights.items[k])]]]
  ELSE IF insights.type = "string"
  THEN [part |-> "insights", kind |-> "text", text |-> insights]
  ELSE [part |-> "insights", kind |-> "json", value |-> insights]

\* The quarri_query_with_analysis arm: the parts the result has, in order.
formatAnalysis(result) ==
  LET insights == IF ToBoolean(Prop(result, "insights"))
                  THEN <<formatInsights(result.insights)>> ELSE <<>>
  IN IF insights # <<>> /\ insights[1].kind = "threw"
     THEN insights[1]
     ELSE [kind |-> "analysis",
           parts |->
             (IF ToBoolean(Prop(result, "sql"))
              THEN <<[part |-> "query", sql |-> result.sql]>> ELSE <<>>)
             \o (IF Prop(result, "data").type = "array"
                 THEN <<[part |-> "data", rows |-> Len(result.data.items)]>> ELSE <<>>)
             \o (IF ToBoolean(Prop(result, "statistics"))
                 THEN <<[part |-> "statistics", json |-> result.statistics]>> ELSE <<>>)
             \o insights
             \o (IF ToBoolean(Prop(result, "chart"))
                 THEN <<[part |-> "chart"]>> ELSE <<>>)]

\* formatToolResponse(toolName, result): the SQL text of quarri_query_agent,
\* the table of quarri_execute_sql when the result has an array of rows,
\* the schema list, the analysis parts, else the result as JSON text.
formatToolResponse(toolName, result) ==
  IF toolName = "quarri_query_agent" /\ ToBoolean(Prop(result, "sql"))
  THEN [kind |-> "sql", sql |-> result.sql,
        explanation |-> IF ToBoolean(Prop(result, "explanation"))
                        THEN result.explanation ELSE UndefinedValue]
  ELSE IF toolName = "quarri_execute_sql" /\ Prop(result, "rows").type = "array"
  THEN formatRows(result)
  ELSE IF toolName = "quarri_get_schema" /\ ToBoolean(Prop(result, "tables"))
  THEN formatSchema(result.tables)
  ELSE IF toolName = "quarri_query_with_analysis"
  THEN formatAnalysis(result)
  ELSE [kind |-> "json", value |-> result]

(***************************************************************************)
(* Dispatcher (index.ts) and auth CLI (auth-cli.ts)                        *)
(***************************************************************************)
VARIABLES
  file,         \* content of ~/.quarri/credentials
  now,          \* the clock
  clientToken,  \* QuarriApiClient.token of the server's shared client
  inv,          \* per request slot: the invocation being handled; `call` is
                \* its HTTP request in flight, `calls` the number of HTTP
                \* requests it has issued
  main,         \* the server's main(): its position, the health probe in
                \* flight and the lines it has logged
  cli,          \* the auth CLI process: the command it runs and its position
  fmt           \* a call of formatToolResponse: its arguments and what it
                \* returned

vars == <<file, now, clientToken, inv, main, cli, fmt>>

NoReply == [kind |-> "none"]

\* { content: [{type: 'text', text}], isError? }
Reply(tag, isError, data) ==
  [kind |-> "content", tag |-> tag, isError |-> isError, data |-> data]

\* throw new McpError(code, message), and any other exception leaving the
\* handler.
Thrown(code, message) ==
  [kind |-> "thrown", tag |-> code, isError |-> TRUE, data |-> [message |-> message]]

getAuthInstructions == "Not authenticated with Quarri. ... npx @quarri/claude-data-tools auth"

NoDatabaseText == "No database selected. Use quarri_list_databases to see available databases, then quarri_select_database to choose one."

NoOutcome == [kind |-> "none"]

NoResult == [threw |-> FALSE, success |-> FALSE, error |-> Undefined]

\* What ensureAuthenticated() of an invocation read from the credential
\* store: the token it passed to setToken and the database selected in the
\* record it loaded.  Kept for the statements about the request sent later.
NoGate == [token |-> NoToken, db |-> Null]

IdleInv ==
  [pc |-> "idle", name |-> "", arg |-> Undefined, authenticated |-> FALSE,
   creds |-> Null, firstDb |-> Undefined, call |-> NoCall, calls |-> 0, outcome |-> NoOutcome,
   result |-> NoResult, reply |-> NoReply, gate |-> NoGate]

\* main() before its first statement.
MainStart == [pc |-> "start", probe |-> NoCall, log |-> <<>>, exited |-> FALSE]

\* main() has run to its end: the transport is connected and the health
\* probe is in flight (GET /api/cli/health with useAuth = false).
MainServing ==
  [pc |-> "serving",
   probe |-> HttpCall("GET", "/api/cli/health", [args |-> Undefined], FALSE, NoToken),
   log |-> <<"Quarri MCP server started">>, exited |-> FALSE]

\* No auth CLI command is running.
CliIdle == [pc |-> "idle"]

\* No call of formatToolResponse.
FmtIdle == [pc |-> "idle"]

\* The server after main() has run, with no auth CLI command under way.
Init ==
  /\ file \in {NoFile, GarbageFile, NullFile, BareObjectFile}
  /\ now = 0
  /\ clientToken = NoToken
  /\ inv = [i \in Invs |-> IdleInv]
  /\ main = MainServing
  /\ cli = CliIdle
  /\ fmt = FmtIdle

\* The positions of a handler between two awaits: the run from one await
\* to the next is not interrupted by another handler of the same process.
MidRun == {"status", "list", "select_save", "check_db", "auto_select", "auto_save", "execute"}

\* Invocation i can take its turn on the event loop: no other invocation is
\* in the middle of a run.
Turn(i) == \A j \in Invs \ {i} : inv[j].pc \notin MidRun

\* The argument maps of an invocation of `name`.
ArgsOf(name) == IF name = "quarri_select_database" THEN DbArgs ELSE {"args"}

\* The tool names a slot is invoked with: any for the first, for the
\* concurrent one a name that runs the authentication gate and ends.
NamesOf(i) == IF i = 1 THEN InvokedNames ELSE {"no_such_tool"}

\* quarri_auth_status going through ensureAuthenticated like the other
\* tools.
InvokeAuthStatus_setToken(i) ==
  /\ inv[i].pc = "idle"
  /\ Turn(i)
  /\ "quarri_auth_status" \in NamesOf(i)
  /\ inv' = [inv EXCEPT ![i] = [IdleInv EXCEPT !.pc = "status",
                                  !.name = "quarri_auth_status", !.arg = "args",
                                  !.creds = loadCredentials(file, now)]]
  /\ clientToken' = IF loadCredentials(file, now).type = "object"
                    THEN loadCredentials(file, now).token ELSE clientToken
  /\ UNCHANGED <<file, now, main, cli, fmt>>

\* The handler up to its first await, for quarri_auth_status: the load of
\* line 148.
InvokeAuthStatus(i) ==
  /\ inv[i].pc = "idle"
  /\ Turn(i)
  /\ "quarri_auth_status" \in NamesOf(i)
  /\ inv' = [inv EXCEPT ![i] = [IdleInv EXCEPT !.pc = "status",
                                  !.name = "quarri_auth_status", !.arg = "args",
                                  !.creds = loadCredentials(file, now)]]
  /\ UNCHANGED <<file, now, clientToken, main, cli, fmt>>

\* quarri_auth_status: getSelectedDatabase() and the reply.
AuthStatus(i) ==
  /\ inv[i].pc = "status"
  /\ LET credentials == inv[i].creds
         selected == getSelectedDatabase(file, now)
     IN inv' = [inv EXCEPT ![i].pc = "done", ![i].reply =
          IF credentials = Null
          THEN Reply("auth_status", FALSE, [authenticated |-> FALSE])
          ELSE IF credentials = BareObject
          THEN Thrown("TypeError", "Cannot read properties of undefined (reading 'map')")
          ELSE Reply("auth_status", FALSE,
                     [authenticated |-> ~(credentials.expiresAt < now),
                      email |-> credentials.email, role |-> credentials.role,
                      selectedDatabase |-> selected,
                      tokenExpires |-> credentials.expiresAt])]
  /\ UNCHANGED <<file, now, clientToken, main, cli, fmt>>

\* The handler up to its first await, for every other tool name:
\* ensureAuthenticated() loads the credentials and copies the token into
\* the shared client (undefined, i.e. no token, from an object without one).
Gate(i, name, args, recorded) ==
  /\ inv[i].pc = "idle"
  /\ Turn(i)
  /\ name # "quarri_auth_status"
  /\ LET credentials == loadCredentials(file, now)
     IN /\ clientToken' = IF credentials = Null THEN clientToken
                         ELSE IF credentials = BareObject THEN NoToken
                         ELSE credentials.token
        /\ inv' = [inv EXCEPT ![i] = [IdleInv EXCEPT !.pc = "gated", !.name = name,
                                        !.arg = args,
                                        !.authenticated = (credentials # Null),
                                        !.gate = IF recorded /\ credentials # Null
                                                 THEN [token |-> clientToken',
                                                       db |-> getSelectedDatabase(file, now)]
                                                 ELSE NoGate]]
  /\ UNCHANGED <<file, now, main, cli, fmt>>

\* The same, with nothing kept of what the gate read.
InvokeTool(i, name, args) == Gate(i, name, args, FALSE)

\* if (!authenticated): the reply with the authentication instructions.
GateReject(i) ==
  /\ inv[i].pc = "gated"
  /\ Turn(i)
  /\ ~inv[i].authenticated
  /\ inv' = [inv EXCEPT ![i].pc = "done",
                        ![i].reply = Reply("auth_required", TRUE, [text |-> getAuthInstructions])]
  /\ UNCHANGED <<file, now, clientToken, main, cli, fmt>>

\* quarri_list_databases: the load of line 205.
ListLoad(i) ==
  /\ inv[i].pc = "gated"
  /\ Turn(i)
  /\ inv[i].authenticated
  /\ inv[i].name = "quarri_list_databases"
  /\ LET credentials == loadCredentials(file, now)
     IN inv' = IF credentials = Null
               THEN [inv EXCEPT ![i].pc = "done",
                                ![i].reply = Thrown("InvalidRequest", "Not authenticated")]
               ELSE [inv EXCEPT ![i].pc = "list", ![i].creds = credentials]
  /\ UNCHANGED <<file, now, clientToken, main, cli, fmt>>

\* quarri_list_databases: getSelectedDatabase() and the reply; JSON.stringify
\* leaves out `databases` when it is undefined.
ListReply(i) ==
  /\ inv[i].pc = "list"
  /\ inv' = [inv EXCEPT ![i].pc = "done", ![i].reply =
       IF inv[i].creds = BareObject
       THEN Reply("list_databases", FALSE,
                  [success |-> TRUE, selected |-> getSelectedDatabase(file, now)])
       ELSE Reply("list_databases", FALSE,
                  [success |-> TRUE, databases |-> inv[i].creds.databases,
                   selected |-> getSelectedDatabase(file, now)])]
  /\ UNCHANGED <<file, now, clientToken, main, cli, fmt>>

\* The error text without the name.
selectError_generic(databaseName) == "Database not found or access denied"

\* `Database '${databaseName}' not found or access denied`; a missing
\* argument prints as undefined.
selectError(databaseName) ==
  "Database '" \o (IF databaseName = Undefined THEN "undefined" ELSE databaseName)
     \o "' not found or access denied"

\* quarri_select_database: setSelectedDatabase up to its save; a false
\* return becomes McpError(InvalidRequest).
SelectLoad(i) ==
  /\ inv[i].pc = "gated"
  /\ Turn(i)
  /\ inv[i].authenticated
  /\ inv[i].name = "quarri_select_database"
  /\ LET credentials == loadCredentials(file, now)
     IN inv' = IF setSelectedDatabaseThrows(credentials)
               THEN [inv EXCEPT ![i].pc = "done",
                                ![i].reply = Thrown("TypeError", "Cannot read properties of undefined (reading 'find')")]
               ELSE IF setSelectedDatabaseOk(credentials, inv[i].arg)
               THEN [inv EXCEPT ![i].pc = "select_save",
                                ![i].creds = setSelectedDatabaseRecord(credentials, inv[i].arg)]
               ELSE [inv EXCEPT ![i].pc = "done",
                                ![i].reply = Thrown("InvalidRequest", selectError(inv[i].arg))]
  /\ UNCHANGED <<file, now, clientToken, main, cli, fmt>>

\* quarri_select_database: saveCredentials and the success reply, whose
\* message carries the argument.
SelectSave(i) ==
  /\ inv[i].pc = "select_save"
  /\ file' = saveCredentials(inv[i].creds)
  /\ inv' = [inv EXCEPT ![i].pc = "done", ![i].reply =
       Reply("select_database", FALSE,
             [success |-> TRUE, message |-> [selected |-> inv[i].arg]])]
  /\ UNCHANGED <<now, clientToken, main, cli, fmt>>

\* quarri_trial_status: client.getTrialStatus() up to the fetch.
TrialSend(i) ==
  /\ inv[i].pc = "gated"
  /\ Turn(i)
  /\ inv[i].authenticated
  /\ inv[i].name = "quarri_trial_status"
  /\ inv' = [inv EXCEPT ![i].pc = "fetch", ![i].calls = 1, ![i].call =
       HttpCall("GET", "/api/auth/cli/trial-status", [args |-> Undefined], TRUE, clientToken)]
  /\ UNCHANGED <<file, now, clientToken, main, cli, fmt>>

\* Names that reach the registry lookup of line 307.
ReachesLookup(name) ==
  name \notin {"quarri_list_databases", "quarri_select_database", "quarri_trial_status"}

\* getBackendToolName(name) is null: McpError(MethodNotFound).
UnknownTool(i) ==
  /\ inv[i].pc = "gated"
  /\ Turn(i)
  /\ inv[i].authenticated
  /\ ReachesLookup(inv[i].name)
  /\ getBackendToolName(inv[i].name) = Null
  /\ inv' = [inv EXCEPT ![i].pc = "done",
                        ![i].reply = Thrown("MethodNotFound", "Unknown tool")]
  /\ UNCHANGED <<file, now, clientToken, main, cli, fmt>>

\* The name resolves: getSelectedDatabase() of line 313.
ResolveDatabase(i) ==
  /\ inv[i].pc = "gated"
  /\ Turn(i)
  /\ inv[i].authenticated
  /\ ReachesLookup(inv[i].name)
  /\ getBackendToolName(inv[i].name) # Null
  /\ inv' = [inv EXCEPT ![i].pc =
       IF getSelectedDatabase(file, now) # Null THEN "execute" ELSE "check_db"]
  /\ UNCHANGED <<file, now, clientToken, main, cli, fmt>>

\* The database check without its short-circuit: the call is made without
\* a database.
CheckDatabase_proceed(i) ==
  /\ inv[i].pc = "check_db"
  /\ LET credentials == loadCredentials(file, now)
     IN inv' = IF credentials = BareObject
               THEN [inv EXCEPT ![i].pc = "done",
                                ![i].reply = Thrown("TypeError", "Cannot read properties of undefined (reading 'length')")]
               ELSE IF credentials # Null /\ Len(credentials.databases) > 0
               THEN [inv EXCEPT ![i].pc = "auto_select",
                                ![i].firstDb = credentials.databases[1].database_name]
               ELSE [inv EXCEPT ![i].pc = "execute"]
  /\ UNCHANGED <<file, now, clientToken, main, cli, fmt>>

\* if (!databaseName): the load of line 317; either the first database is
\* taken for auto-selection or the invocation ends with the instructive
\* reply.  credentials.databases.length throws when databases is undefined.
CheckDatabase(i) ==
  /\ inv[i].pc = "check_db"
  /\ LET credentials == loadCredentials(file, now)
     IN inv' = IF credentials = BareObject
               THEN [inv EXCEPT ![i].pc = "done",
                                ![i].reply = Thrown("TypeError", "Cannot read properties of undefined (reading 'length')")]
               ELSE IF credentials # Null /\ Len(credentials.databases) > 0
               THEN [inv EXCEPT ![i].pc = "auto_select",
                                ![i].firstDb = credentials.databases[1].database_name]
               ELSE [inv EXCEPT ![i].pc = "done",
                                ![i].reply = Reply("no_database", TRUE, [text |-> NoDatabaseText])]
  /\ UNCHANGED <<file, now, clientToken, main, cli, fmt>>

\* setSelectedDatabase(firstDb) up to its save; its return value is ignored.
AutoSelectLoad(i) ==
  /\ inv[i].pc = "auto_select"
  /\ LET credentials == loadCredentials(file, now)
     IN inv' = IF setSelectedDatabaseThrows(credentials)
               THEN [inv EXCEPT ![i].pc = "done",
                                ![i].reply = Thrown("TypeError", "Cannot read properties of undefined (reading 'find')")]
               ELSE IF setSelectedDatabaseOk(credentials, inv[i].firstDb)
               THEN [inv EXCEPT ![i].pc = "auto_save",
                                ![i].creds = setSelectedDatabaseRecord(credentials, inv[i].firstDb)]
               ELSE [inv EXCEPT ![i].pc = "execute"]
  /\ UNCHANGED <<file, now, clientToken, main, cli, fmt>>

\* setSelectedDatabase(firstDb): saveCredentials.
AutoSelectSave(i) ==
  /\ inv[i].pc = "auto_save"
  /\ file' = saveCredentials(inv[i].creds)
  /\ inv' = [inv EXCEPT ![i].pc = "execute", ![i].creds = Null]
  /\ UNCHANGED <<now, clientToken, main, cli, fmt>>

\* client.executeTool(backendToolName, args, getSelectedDatabase() ??
\* undefined) up to the fetch.
Execute(i) ==
  /\ inv[i].pc = "execute"
  /\ inv' = [inv EXCEPT ![i].pc = "fetch", ![i].calls = 1, ![i].call =
       HttpCall("POST", executeToolPath(getBackendToolName(inv[i].name)),
                executeToolBody(inv[i].arg, getSelectedDatabase(file, now)),
                TRUE, clientToken)]
  /\ UNCHANGED <<file, now, clientToken, main, cli, fmt>>

\* The fetch of a tool call settles: executeTool's return value and the
\* handler's reply.
RespondTool(i, outcome) ==
  /\ inv[i].pc = "fetch"
  /\ Turn(i)
  /\ inv[i].name # "quarri_trial_status"
  /\ LET result == request(outcome, DEFAULT_TIMEOUT)
     IN inv' = [inv EXCEPT ![i].pc = "done", ![i].call = NoCall, ![i].outcome = outcome,
                           ![i].result = result, ![i].reply =
          IF ~result.success
          THEN Reply("tool_error", TRUE,
                     [text |-> formatErrorResponse(IF Truthy(result.error)
                                                   THEN result.error ELSE "Unknown error")])
          ELSE IF result.data.json = "null"
          THEN Thrown("TypeError", "Cannot read properties of null (reading 'success')")
          ELSE IF result.data.success # "true"
          THEN Reply("tool_error", TRUE,
                     [text |-> formatErrorResponse(IF Truthy(result.data.error)
                                                   THEN result.data.error ELSE "Unknown error")])
          ELSE LET text == formatToolResponse(inv[i].name, result.data)
               IN IF text.kind = "threw"
                  THEN Thrown("TypeError", text.message)
                  ELSE Reply("tool_result", FALSE, [tool |-> inv[i].name, text |-> text])]
  /\ UNCHANGED <<file, now, clientToken, main, cli, fmt>>

\* The reply of quarri_trial_status for what getTrialStatus() resolved to.
trialStatusReply(result) ==
  IF ~result.success
  THEN Reply("trial_error", TRUE,
             [error |-> IF Truthy(result.error) THEN result.error
                        ELSE "Failed to get trial status"])
  ELSE Reply("trial_status", FALSE, [is_trial |-> FALSE])

\* The fetch of quarri_trial_status settles.
RespondTrial(i, outcome) ==
  /\ inv[i].pc = "fetch"
  /\ Turn(i)
  /\ inv[i].name = "quarri_trial_status"
  /\ LET result == request(outcome, DEFAULT_TIMEOUT)
     IN inv' = [inv EXCEPT ![i].pc = "done", ![i].call = NoCall, ![i].outcome = outcome,
                           ![i].result = result, ![i].reply = trialStatusReply(result)]
  /\ UNCHANGED <<file, now, clientToken, main, cli, fmt>>

\* The reply is delivered and the slot takes the next invocation.
Retire(i) ==
  /\ inv[i].pc = "done"
  /\ Turn(i)
  /\ inv' = [inv EXCEPT ![i] = IdleInv]
  /\ UNCHANGED <<file, now, clientToken, main, cli, fmt>>

\* Time passes.
Tick ==
  /\ now < MaxTime
  /\ now' = now + 1
  /\ UNCHANGED <<file, clientToken, inv, main, cli, fmt>>

\* auth-cli login / verify / signup in another process: the exchange
\* succeeded and the new record is saved, without selectedDatabase.
CliLogin(token, account) ==
  /\ token.exp > now
  /\ file' = saveCredentials(Credentials(token, account.role, account.databases, Undefined))
  /\ UNCHANGED <<now, clientToken, inv, main, cli, fmt>>

\* auth-cli logout in another process.
CliLogout ==
  /\ file' = clearCredentials(file).file
  /\ UNCHANGED <<now, clientToken, inv, main, cli, fmt>>

Next ==
  \/ \E i \in Invs : InvokeAuthStatus(i)
  \/ \E i \in Invs : AuthStatus(i)
  \/ \E i \in Invs : \E name \in NamesOf(i) : \E args \in ArgsOf(name) : InvokeTool(i, name, args)
  \/ \E i \in Invs : GateReject(i)
  \/ \E i \in Invs : ListLoad(i)
  \/ \E i \in Invs : ListReply(i)
  \/ \E i \in Invs : SelectLoad(i)
  \/ \E i \in Invs : SelectSave(i)
  \/ \E i \in Invs : TrialSend(i)
  \/ \E i \in Invs : UnknownTool(i)
  \/ \E i \in Invs : ResolveDatabase(i)
  \/ \E i \in Invs : CheckDatabase(i)
  \/ \E i \in Invs : AutoSelectLoad(i)
  \/ \E i \in Invs : AutoSelectSave(i)
  \/ \E i \in Invs : Execute(i)
  \/ \E i \in Invs : \E outcome \in FetchOutcomes : RespondTool(i, outcome)
  \/ \E i \in Invs : \E outcome \in FetchOutcomes : RespondTrial(i, outcome)
  \/ \E i \in Invs : Retire(i)
  \/ Tick
  \/ \E token \in Tokens : \E account \in Accounts : CliLogin(token, account)
  \/ CliLogout

Spec == Init /\ [][Next]_vars

(***************************************************************************)
(* The server with a credential file that cannot be written                *)
(***************************************************************************)
\* What leaves saveCredentials when fs.mkdirSync or fs.writeFileSync throws
\* (EACCES, ENOSPC, EROFS, ...): the function has no try/catch.
saveCredentialsError == Thrown("Error", "EACCES: permission denied, open '~/.quarri/credentials'")

\* quarri_select_database: saveCredentials throws; the exception passes
\* through setSelectedDatabase and the handler, and the file is as before.
SelectSaveFails(i) ==
  /\ inv[i].pc = "select_save"
  /\ inv' = [inv EXCEPT ![i].pc = "done", ![i].reply = saveCredentialsError]
  /\ UNCHANGED <<file, now, clientToken, main, cli, fmt>>

\* setSelectedDatabase(firstDb) of the auto-selection: saveCredentials
\* throws.
AutoSelectSaveFails(i) ==
  /\ inv[i].pc = "auto_save"
  /\ inv' = [inv EXCEPT ![i].pc = "done", ![i].reply = saveCredentialsError]
  /\ UNCHANGED <<file, now, clientToken, main, cli, fmt>>

NextIO ==
  \/ Next
  \/ \E i \in Invs : SelectSaveFails(i)
  \/ \E i \in Invs : AutoSelectSaveFails(i)

SpecIO == Init /\ [][NextIO]_vars

(***************************************************************************)
(* formatToolResponse over the shapes a backend payload can have           *)
(***************************************************************************)
\* Tool names the formatter is called with: those with an arm of their own
\* and one without.
FormattedTools ==
  {"quarri_query_agent", "quarri_execute_sql", "quarri_get_schema",
   "quarri_query_with_analysis", "quarri_list_tables"}

\* A body of a successful call with the given properties besides `success`.
Payload(props) ==
  [k \in DOMAIN props \cup {"json", "error", "success"} |->
     IF k = "json" THEN "object"
     ELSE IF k = "error" THEN Undefined
     ELSE IF k = "success" THEN "true"
     ELSE props[k]]

OrdersTable ==
  Obj([name |-> Str("orders"),
       columns |-> Arr(<<Obj([name |-> Str("id"), type |-> Str("INTEGER")]),
                         Obj([name |-> Str("total"), type |-> Str("DOUBLE")])>>)])

\* Payload shapes: well-formed results of each tool, and results whose
\* properties have another type than the formatter's casts say.
Payloads ==
  {Payload([sql |-> Str("SELECT 1")]),
   Payload([sql |-> Str("SELECT 1"), explanation |-> Str("one row")]),
   Payload([sql |-> Str("")]),
   Payload([rows |-> Arr(<<>>)]),
   Payload([rows |-> Arr(<<Row(1), Row(2)>>)]),
   Payload([rows |-> Arr(<<Row(1)>>), columns |-> Arr(<<"total", "id">>)]),
   Payload([rows |-> Arr(<<Row(1)>>), columns |-> Str("id,total")]),
   Payload([rows |-> Str("2 rows")]),
   Payload([rows |-> Num(2)]),
   Payload([rows |-> Obj([count |-> Num(2)])]),
   Payload([rows |-> Null]),
   Payload([tables |-> Arr(<<>>)]),
   Payload([tables |-> Arr(<<OrdersTable>>)]),
   Payload([tables |-> Arr(<<OrdersTable, Obj([name |-> Str("customers")])>>)]),
   Payload([tables |-> Arr(<<Obj([name |-> Str("orders"), columns |-> Str("id")])>>)]),
   Payload([tables |-> Arr(<<Str("orders")>>)]),
   Payload([tables |-> Arr(<<Null>>)]),
   Payload([tables |-> Obj([orders |-> OrdersTable])]),
   Payload([tables |-> Str("orders, customers")]),
   Payload([tables |-> Num(2)]),
   Payload([tables |-> Null]),
   Payload([insights |-> Str("Sales rose.")]),
   Payload([insights |-> Arr(<<Str("Sales rose."),
                               Obj([title |-> Str("Trend"), finding |-> Str("up")]),
                               Obj([description |-> Str("flat")]),
                               Num(5)>>)]),
   Payload([insights |-> Arr(<<Null>>)]),
   Payload([insights |-> Obj([summary |-> Str("ok")])]),
   Payload([insights |-> Num(3)]),
   Payload([sql |-> Str("SELECT 1"), data |-> Arr(<<Row(1)>>),
            statistics |-> Obj([mean |-> Num(10)]), chart |-> Obj([kind |-> Str("bar")])]),
   Payload([data |-> Str("none")])}

\* The formatter alone: no server, no invocation.
InitFormat ==
  /\ file = NoFile
  /\ now = 0
  /\ clientToken = NoToken
  /\ inv = [i \in Invs |-> IdleInv]
  /\ main = MainServing
  /\ cli = CliIdle
  /\ fmt = FmtIdle

\* formatToolResponse is called.
FormatCall(toolName, result) ==
  /\ fmt.pc = "idle"
  /\ fmt' = [pc |-> "called", toolName |-> toolName, result |-> result]
  /\ UNCHANGED <<file, now, clientToken, inv, main, cli>>

\* formatToolResponse returns its text or throws.
FormatReturn ==
  /\ fmt.pc = "called"
  /\ fmt' = [fmt EXCEPT !.pc = "returned"] @@
            [out |-> formatToolResponse(fmt.toolName, fmt.result)]
  /\ UNCHANGED <<file, now, clientToken, inv, main, cli>>

NextFormat ==
  \/ \E toolName \in FormattedTools, result \in Payloads : FormatCall(toolName, result)
  \/ FormatReturn

SpecFormat == InitFormat /\ [][NextFormat]_vars

(***************************************************************************)
(* Startup: main() of index.ts                                             *)
(***************************************************************************)
\* The transport is connected and the process runs.
Connected == main.pc \in {"serving", "probed"} /\ ~main.exited

\* main(): `await server.connect(transport)`, the start message, and
\* client.healthCheck() issued without awaiting it.
Connect ==
  /\ main.pc = "start"
  /\ main' = [main EXCEPT !.pc = "serving",
                          !.probe = HttpCall("GET", "/api/cli/health", [args |-> Undefined],
                                             FALSE, clientToken),
                          !.log = Append(main.log, "Quarri MCP server started")]
  /\ UNCHANGED <<file, now, clientToken, inv, cli, fmt>>

\* A probe whose failure ends the process.
ProbeSettle_exitOnFailure(outcome) ==
  /\ main.pc = "serving"
  /\ ~main.exited
  /\ LET health == request(outcome, DEFAULT_TIMEOUT)
     IN main' = [main EXCEPT !.pc = "probed", !.probe = NoCall,
                             !.exited = ~health.success,
                             !.log = IF ~health.success
                                     THEN Append(main.log, "Failed to start server:")
                                     ELSE main.log]
  /\ UNCHANGED <<file, now, clientToken, inv, cli, fmt>>

\* The probe settles: the .then() callback logs a warning for a failure
\* value, the .catch() callback for a rejection.
ProbeSettle(outcome) ==
  /\ main.pc = "serving"
  /\ ~main.exited
  /\ LET health == request(outcome, DEFAULT_TIMEOUT)
     IN main' = [main EXCEPT !.pc = "probed", !.probe = NoCall,
                             !.log = IF health.threw
                                     THEN Append(main.log, "Warning: Health check failed")
                                     ELSE IF ~health.success
                                     THEN Append(main.log, "Warning: Could not connect to Quarri API")
                                     ELSE main.log]
  /\ UNCHANGED <<file, now, clientToken, inv, cli, fmt>>

\* Tool names of the invocations at startup.
StartupNames == {"quarri_trial_status", "no_such_tool"}

\* The connected server takes an invocation.
Accept(i) ==
  /\ Connected
  /\ \/ InvokeAuthStatus(i)
     \/ \E name \in StartupNames \cap NamesOf(i) : \E args \in ArgsOf(name) : InvokeTool(i, name, args)

\* The process at its start: nothing connected, no probe issued.
InitStartup ==
  /\ file \in {NoFile, GarbageFile}
  /\ now = 0
  /\ clientToken = NoToken
  /\ inv = [i \in Invs |-> IdleInv]
  /\ main = MainStart
  /\ cli = CliIdle
  /\ fmt = FmtIdle

NextStartup ==
  \/ Connect
  \/ \E outcome \in FetchOutcomes : ProbeSettle(outcome)
  \/ \E i \in Invs : Accept(i)
  \/ \E i \in Invs : AuthStatus(i)
  \/ \E i \in Invs : GateReject(i)
  \/ \E i \in Invs : TrialSend(i)
  \/ \E i \in Invs : UnknownTool(i)
  \/ \E i \in Invs : \E outcome \in FetchOutcomes : RespondTrial(i, outcome)
  \/ \E i \in Invs : Retire(i)
  \/ Tick
  \/ \E token \in Tokens : \E account \in Accounts : CliLogin(token, account)
  \/ CliLogout

\* server.connect() on the stdio transport completes.
SpecStartup == InitStartup /\ [][NextStartup]_vars /\ WF_vars(Connect)

(***************************************************************************)
(* The phases of one HTTP exchange of request() (api/client.ts)            *)
(***************************************************************************)
\* A stored record that stays valid: the state after `quarri-auth login`.
LoggedInFile ==
  saveCredentials(Credentials([id |-> MaxTime + 1, exp |-> MaxTime + 1], "user",
                              <<SalesDb, OpsDb>>, Undefined))

InitExchange ==
  /\ file = LoggedInFile
  /\ now = 0
  /\ clientToken = NoToken
  /\ inv = [i \in Invs |-> IdleInv]
  /\ main = MainServing
  /\ cli = CliIdle
  /\ fmt = FmtIdle

\* setTimeout(() => controller.abort(), timeout) fires while fetch() is
\* pending: the fetch rejects with AbortError.
TimerFires(i) ==
  RespondTrial(i, [kind |-> "abort", name |-> "AbortError",
                   message |-> "This operation was aborted"])

\* fetch() rejects before any response: connection refused, DNS failure.
FetchRejects(i) ==
  RespondTrial(i, [kind |-> "network", name |-> "TypeError", message |-> "fetch failed"])

\* fetch() resolves with the response headers; clearTimeout(timeoutId) runs
\* and response.json() starts to read the body.
HeadersArrive(i, status) ==
  /\ inv[i].pc = "fetch"
  /\ Turn(i)
  /\ inv[i].name = "quarri_trial_status"
  /\ inv' = [inv EXCEPT ![i].pc = "body",
                        ![i].outcome = [kind |-> "headers", status |-> status]]
  /\ UNCHANGED <<file, now, clientToken, main, cli, fmt>>

\* response.json() settles: the body has arrived and is parsed, or is not
\* JSON.
BodyArrives(i, body) ==
  /\ inv[i].pc = "body"
  /\ Turn(i)
  /\ LET outcome == [kind |-> "response", status |-> inv[i].outcome.status, body |-> body]
         result == request(outcome, DEFAULT_TIMEOUT)
     IN inv' = [inv EXCEPT ![i].pc = "done", ![i].call = NoCall, ![i].outcome = outcome,
                           ![i].result = result, ![i].reply = trialStatusReply(result)]
  /\ UNCHANGED <<file, now, clientToken, main, cli, fmt>>

NextExchange ==
  \/ \E i \in Invs : InvokeTool(i, "quarri_trial_status", "args")
  \/ \E i \in Invs : TrialSend(i)
  \/ \E i \in Invs : TimerFires(i)
  \/ \E i \in Invs : FetchRejects(i)
  \/ \E i \in Invs : \E status \in {200, 404, 500} : HeadersArrive(i, status)
  \/ \E i \in Invs : \E body \in Bodies : BodyArrives(i, body)
  \/ \E i \in Invs : Retire(i)

\* The handler runs on, and a timer that stays armed fires; the backend
\* owes nothing.
SpecExchange ==
  /\ InitExchange
  /\ [][NextExchange]_vars
  /\ \A i \in Invs : WF_vars(TrialSend(i)) /\ WF_vars(TimerFires(i))

(***************************************************************************)
(* Invocations sharing the QuarriApiClient, with what each gate read       *)
(***************************************************************************)
\* Tool names of the invocations that call the backend, and of the
\* concurrent invocation.
SharedNames(i) ==
  IF i = 1 THEN {"quarri_execute_sql", "quarri_trial_status"} ELSE {"no_such_tool"}

\* Outcomes of the calls: no response, or a 200 with one of the plain
\* bodies.
SharedOutcomes ==
  {o \in FetchOutcomes : o.kind # "response" \/ (o.status = 200 /\ o.body \in Bodies)}

\* The handler up to its first await, keeping what the gate read.
InvokeToolRecorded(i, name, args) == Gate(i, name, args, TRUE)

\* The server with no credential file, or with the record of a login.
InitShared ==
  /\ file \in {NoFile, LoggedInFile}
  /\ now = 0
  /\ clientToken = NoToken
  /\ inv = [i \in Invs |-> IdleInv]
  /\ main = MainServing
  /\ cli = CliIdle
  /\ fmt = FmtIdle

NextShared ==
  \/ \E i \in Invs : \E name \in SharedNames(i) : InvokeToolRecorded(i, name, "args")
  \/ \E i \in Invs : GateReject(i)
  \/ \E i \in Invs : TrialSend(i)
  \/ \E i \in Invs : UnknownTool(i)
  \/ \E i \in Invs : ResolveDatabase(i)
  \/ \E i \in Invs : CheckDatabase(i)
  \/ \E i \in Invs : AutoSelectLoad(i)
  \/ \E i \in Invs : AutoSelectSave(i)
  \/ \E i \in Invs : Execute(i)
  \/ \E i \in Invs : \E outcome \in SharedOutcomes : RespondTool(i, outcome)
  \/ \E i \in Invs : \E outcome \in SharedOutcomes : RespondTrial(i, outcome)
  \/ \E i \in Invs : Retire(i)
  \/ Tick
  \/ \E token \in Tokens : \E account \in Accounts : CliLogin(token, account)
  \/ CliLogout

SpecShared == InitShared /\ [][NextShared]_vars

(***************************************************************************)
(* The authentication flows (auth-cli.ts, auth-flow.ts)                    *)
(***************************************************************************)
\* login, verify and signup of quarri-auth, and the invitation flow of
\* runAuthFlow.
Flows == {"login", "verify", "signup", "invite"}

\* Bodies of the authentication endpoints: no JSON, JSON null, a refusal,
\* and the AuthResponse of an account with a fresh token.
AuthBodies ==
  {[json |-> "invalid"], [json |-> "null"],
   [json |-> "object", error |-> "Invalid or expired code", success |-> "false"]} \cup
  {[json |-> "object", error |-> Undefined, success |-> "true",
    token |-> token, account |-> account] : token \in Tokens, account \in Accounts}

AuthOutcomes ==
  {[kind |-> "abort", name |-> "AbortError", message |-> "This operation was aborted"],
   [kind |-> "network", name |-> "TypeError", message |-> "fetch failed"]} \cup
  [kind : {"response"}, status : {200, 404}, body : AuthBodies]

\* requestVerificationCode / initiateSignup: the failure of request(), else
\* {success: true, ...result.data}, where a `success` of the body wins.
requestVerificationCode(outcome) ==
  LET result == request(outcome, DEFAULT_TIMEOUT)
  IN IF ~result.success THEN [success |-> FALSE, error |-> result.error]
     ELSE IF result.data.json = "null" THEN [success |-> TRUE, error |-> Undefined]
     ELSE [success |-> (result.data.success # "false"), error |-> result.data.error]

\* verifyCode / completeSignup / verifyInvite: the failure of request(),
\* else success with the token, user and databases of the body, whatever
\* the body is; reading them from a null body throws.
verifyCode(outcome) ==
  LET result == request(outcome, DEFAULT_TIMEOUT)
  IN IF ~result.success
     THEN [threw |-> FALSE, success |-> FALSE, error |-> result.error, user |-> Undefined]
     ELSE IF result.data.json = "null"
     THEN [threw |-> TRUE, success |-> FALSE,
           error |-> "Cannot read properties of null (reading 'token')", user |-> Undefined]
     ELSE IF "account" \in DOMAIN result.data
     THEN [threw |-> FALSE, success |-> TRUE, error |-> Undefined,
           user |-> result.data.account.role, token |-> result.data.token,
           databases |-> result.data.account.databases]
     ELSE [threw |-> FALSE, success |-> TRUE, error |-> Undefined, user |-> Undefined]

\* The command has ended without a new record: process.exit(code), a
\* `return null`, or an uncaught error.
CliExited(flow, code, message) ==
  [pc |-> "exited", flow |-> flow, code |-> code, message |-> message]

\* A command starts: login looks for existing credentials, verify checks
\* its two arguments.
CliStart(flow, argsGiven) ==
  /\ cli.pc = "idle"
  /\ cli' = IF flow = "login"
            THEN [pc |-> IF loadCredentials(file, now) # Null THEN "reauth" ELSE "email",
                  flow |-> flow]
            ELSE IF flow = "verify"
            THEN IF argsGiven THEN [pc |-> "verifying", flow |-> flow]
                 ELSE CliExited(flow, 1, "Usage: quarri-auth verify <email> <code>")
            ELSE [pc |-> "email", flow |-> flow]
  /\ UNCHANGED <<file, now, clientToken, inv, main, fmt>>

\* login: the answer to `Re-authenticate? (y/n)`.
ReauthAnswer(yes) ==
  /\ cli.pc = "reauth"
  /\ cli' = IF yes THEN [cli EXCEPT !.pc = "email"]
            ELSE CliExited(cli.flow, 0, "Keeping existing credentials.")
  /\ UNCHANGED <<file, now, clientToken, inv, main, fmt>>

\* The email prompt: an address without '@' ends the command.
EnterEmail(valid) ==
  /\ cli.pc = "email"
  /\ cli' = IF ~valid THEN CliExited(cli.flow, 1, "Invalid email address")
            ELSE [cli EXCEPT !.pc = IF cli.flow = "login" THEN "requesting"
                                    ELSE IF cli.flow = "signup" THEN "org"
                                    ELSE "invite_token"]
  /\ UNCHANGED <<file, now, clientToken, inv, main, fmt>>

\* signup: the organization name, at least 2 characters; then
\* initiateSignup is called.
EnterOrg(valid) ==
  /\ cli.pc = "org"
  /\ cli' = IF ~valid
            THEN CliExited(cli.flow, 1, "Organization name must be at least 2 characters")
            ELSE [cli EXCEPT !.pc = "requesting"]
  /\ UNCHANGED <<file, now, clientToken, inv, main, fmt>>

\* requestVerificationCode / initiateSignup settles.
RequestSettles(outcome) ==
  /\ cli.pc = "requesting"
  /\ cli' = IF ~requestVerificationCode(outcome).success
            THEN CliExited(cli.flow, 1, "Failed to request code")
            ELSE [cli EXCEPT !.pc = "code"]
  /\ UNCHANGED <<file, now, clientToken, inv, main, fmt>>

\* The code prompt: the code must have 6 characters.
EnterCode(valid) ==
  /\ cli.pc = "code"
  /\ cli' = IF ~valid THEN CliExited(cli.flow, 1, "Invalid verification code")
            ELSE [cli EXCEPT !.pc = "verifying"]
  /\ UNCHANGED <<file, now, clientToken, inv, main, fmt>>

\* The invitation flow: the token prompt.
EnterInviteToken(given) ==
  /\ cli.pc = "invite_token"
  /\ cli' = IF ~given THEN CliExited(cli.flow, 1, "Invitation token is required")
            ELSE [cli EXCEPT !.pc = "verifying"]
  /\ UNCHANGED <<file, now, clientToken, inv, main, fmt>>

\* A verification whose failure removes the stored record.
VerifySettles_clearOnFailure(outcome) ==
  /\ cli.pc = "verifying"
  /\ LET verifyResult == verifyCode(outcome)
     IN IF verifyResult.threw \/ ~verifyResult.success \/ verifyResult.user = Undefined
        THEN /\ cli' = CliExited(cli.flow, 1, "Verification failed")
             /\ file' = NoFile
        ELSE /\ file' = saveCredentials(Credentials(verifyResult.token, verifyResult.user,
                                                    verifyResult.databases, Undefined))
             /\ cli' = [pc |-> "authenticated", flow |-> cli.flow, result |-> verifyResult]
  /\ UNCHANGED <<now, clientToken, inv, main, fmt>>

\* verifyCode / completeSignup / verifyInvite settles: a failure ends the
\* command; after a success the record is built (verifyResult.user!.email
\* throws when the body had no user) and saved.
VerifySettles(outcome) ==
  /\ cli.pc = "verifying"
  /\ LET verifyResult == verifyCode(outcome)
     IN IF verifyResult.threw
        THEN /\ cli' = CliExited(cli.flow, 1, verifyResult.error)
             /\ file' = file
        ELSE IF ~verifyResult.success
        THEN /\ cli' = CliExited(cli.flow, 1, "Verification failed")
             /\ file' = file
        ELSE IF verifyResult.user = Undefined
        THEN /\ cli' = CliExited(cli.flow, 1,
                                 "Cannot read properties of undefined (reading 'email')")
             /\ file' = file
        ELSE /\ file' = saveCredentials(Credentials(verifyResult.token, verifyResult.user,
                                                    verifyResult.databases, Undefined))
             /\ cli' = [pc |-> "authenticated", flow |-> cli.flow, result |-> verifyResult]
  /\ UNCHANGED <<now, clientToken, inv, main, fmt>>

\* The process of the command is gone.
CliEnd ==
  /\ cli.pc \in {"exited", "authenticated"}
  /\ cli' = CliIdle
  /\ UNCHANGED <<file, now, clientToken, inv, main, fmt>>

InitCli ==
  /\ file \in {NoFile, LoggedInFile}
  /\ now = 0
  /\ clientToken = NoToken
  /\ inv = [i \in Invs |-> IdleInv]
  /\ main = MainServing
  /\ cli = CliIdle
  /\ fmt = FmtIdle

NextCli ==
  \/ \E flow \in Flows : \E argsGiven \in BOOLEAN : CliStart(flow, argsGiven)
  \/ \E yes \in BOOLEAN : ReauthAnswer(yes)
  \/ \E valid \in BOOLEAN : EnterEmail(valid)
  \/ \E valid \in BOOLEAN : EnterOrg(valid)
  \/ \E outcome \in AuthOutcomes : RequestSettles(outcome)
  \/ \E valid \in BOOLEAN : EnterCode(valid)
  \/ \E given \in BOOLEAN : EnterInviteToken(given)
  \/ \E outcome \in AuthOutcomes : VerifySettles(outcome)
  \/ CliEnd
  \/ CliLogout

SpecCli == InitCli /\ [][NextCli]_vars

(***************************************************************************)
(* Properties                                                              *)
(***************************************************************************)
\* The credential file holds a well-formed record that is not expired at
\* instant t.
Usable(f, t) == f.kind = "json_object" /\ ~(f.fields.expiresAt < t)

\* Invocation i took a step of its handler.
Stepped(i) == inv'[i] # inv[i] /\ inv'[i].pc # "idle"

\* C1: an invocation of any tool but quarri_auth_status that finds no usable
\* credential (file missing, malformed or expired) fails the
\* authentication gate; from then on it issues no HTTP call and leaves the
\* credential file alone, and it ends with the error-flagged reply that
\* carries the authentication instructions, not with a thrown error.
C1_AuthRequired ==
  /\ [][\A i \in Invs :
          /\ (inv[i].pc = "idle" /\ inv'[i].pc = "gated" /\ ~Usable(file, now))
               => (~inv'[i].authenticated /\ file' = file /\ clientToken' = clientToken)
          /\ (Stepped(i) /\ inv[i].pc = "gated" /\ ~inv[i].authenticated)
               => (file' = file /\ inv'[i].pc = "done")]_vars
  /\ [](\A i \in Invs :
          (inv[i].pc = "done" /\ inv[i].name # "quarri_auth_status" /\ ~inv[i].authenticated)
            => /\ inv[i].reply = Reply("auth_required", TRUE, [text |-> getAuthInstructions])
               /\ inv[i].calls = 0)

\* C2: an invocation whose tool name is neither a key of TOOL_NAME_MAP nor a
\* locally handled tool never issues an HTTP call, and once past the
\* authentication gate it ends with McpError(MethodNotFound).
C2_UnknownToolClaim ==
  \A i \in Invs :
    (inv[i].name \notin DOMAIN TOOL_NAME_MAP /\ inv[i].name \notin LocalTools)
      => /\ inv[i].calls = 0
         /\ (inv[i].pc = "done" /\ inv[i].authenticated)
              => inv[i].reply.tag = "MethodNotFound"

\* C3: whenever a request leaves with an Authorization header, the token in
\* it is not expired at that instant.
C3_NoExpiredTokenSentClaim ==
  [][\A i \in Invs :
       (inv[i].pc # "fetch" /\ inv'[i].pc = "fetch"
          /\ inv'[i].call.authorization # NoToken)
         => ~(inv'[i].call.authorization.exp < now')]_vars

\* Some entry of dbs has x as its database_name or as its display_name.
Matches(dbs, x) ==
  \E k \in 1..Len(dbs) : dbs[k].database_name = x \/ dbs[k].display_name = x

\* The first entry of dbs that has x as database_name or display_name.
FirstMatch(dbs, x) ==
  dbs[CHOOSE k \in 1..Len(dbs) :
        /\ dbs[k].database_name = x \/ dbs[k].display_name = x
        /\ \A j \in 1..(k - 1) : dbs[j].database_name # x /\ dbs[j].display_name # x]

\* C4: quarri_select_database over a usable record succeeds exactly when
\* its argument is the database_name or the display_name of an entry of the
\* record's databases, or the role is super_admin; and when the argument
\* matches an entry, getSelectedDatabase() right after the save is the
\* database_name of the (first) matching entry, as long as the record is
\* still usable.
C4_SelectDatabase ==
  [][\A i \in Invs :
       /\ (Stepped(i) /\ inv[i].pc = "gated" /\ inv[i].authenticated
             /\ inv[i].name = "quarri_select_database" /\ Usable(file, now))
            => ((inv'[i].pc = "select_save")
                  <=> (Matches(file.fields.databases, inv[i].arg)
                         \/ file.fields.role = "super_admin"))
       /\ (Stepped(i) /\ inv[i].pc = "select_save")
            => /\ inv'[i].reply.tag = "select_database"
               /\ (Usable(file', now') /\ Matches(file'.fields.databases, inv[i].arg))
                    => getSelectedDatabase(file', now') =
                         [type |-> "string",
                          value |-> FirstMatch(file'.fields.databases, inv[i].arg).database_name]]_vars

\* C4 witness: a selection by display name has succeeded and the selected
\* database is the internal name.
C4_Witness ==
  /\ inv[1].pc = "done"
  /\ inv[1].name = "quarri_select_database"
  /\ inv[1].arg = "Sales"
  /\ inv[1].reply.tag = "select_database"
  /\ getSelectedDatabase(file, now) = [type |-> "string", value |-> "sales_db"]

\* C5: a stored selectedDatabase is the database_name of an entry of the
\* stored databases, unless the stored role is super_admin.
C5_SelectionInList ==
  (file.kind = "json_object" /\ "selectedDatabase" \in DOMAIN file.fields
     /\ file.fields.role # "super_admin")
    => \E k \in 1..Len(file.fields.databases) :
         file.fields.databases[k].database_name = file.fields.selectedDatabase

\* C5 witness: the record of a plain user holds a selection.
C5_Witness ==
  /\ file.kind = "json_object"
  /\ file.fields.role = "user"
  /\ "selectedDatabase" \in DOMAIN file.fields
  /\ file.fields.selectedDatabase = "ops_db"

\* What the spec gives for get_selected_database() over file f at instant t.
ExpectedSelected(f, t) ==
  IF ~Usable(f, t) THEN Null
  ELSE IF "selectedDatabase" \in DOMAIN f.fields
  THEN [type |-> "string", value |-> f.fields.selectedDatabase]
  ELSE IF f.fields.databases # <<>>
  THEN [type |-> "string", value |-> f.fields.databases[1].database_name]
  ELSE Null

\* C6: the value of getSelectedDatabase() that quarri_list_databases and
\* quarri_auth_status report is the stored selectedDatabase when the record
\* is usable and has one, else the database_name of the first entry of
\* databases, else null; it is null when no usable credential is loaded.
C6_GetSelectedDatabase ==
  [][\A i \in Invs :
       /\ (Stepped(i) /\ inv[i].pc = "list")
            => inv'[i].reply.data.selected = ExpectedSelected(file, now)
       /\ (Stepped(i) /\ inv[i].pc = "status" /\ inv[i].creds.type = "object")
            => inv'[i].reply.data.selectedDatabase = ExpectedSelected(file, now)]_vars

\* C6 witness: quarri_list_databases reported a selection that is not the
\* first database.
C6_Witness ==
  /\ inv[1].pc = "done"
  /\ inv[1].reply.tag = "list_databases"
  /\ inv[1].reply.data.selected = [type |-> "string", value |-> "ops_db"]
  /\ inv[1].reply.data.databases[1].database_name = "sales_db"

\* C7: when a registered remote tool is sent with a database context, the
\* persisted record then holds that database as its selectedDatabase.
C7_AutoSelectPersistedClaim ==
  [][\A i \in Invs :
       (Stepped(i) /\ inv[i].pc = "execute"
          /\ inv[i].name \in DOMAIN TOOL_NAME_MAP
          /\ "database_name" \in DOMAIN inv'[i].call.body
          /\ Usable(file', now'))
         => /\ "selectedDatabase" \in DOMAIN file'.fields
            /\ file'.fields.selectedDatabase = inv'[i].call.body.database_name]_vars

\* C8: a save followed by a load gives back the saved record, field for
\* field, when its expiresAt is in the future; the login save leaves no
\* selectedDatabase of the earlier record behind; and over a stored record
\* whose expiresAt is in the past the load gives null.
C8_SaveLoadRoundTrip ==
  /\ [][/\ \A i \in Invs :
             (Stepped(i) /\ inv[i].pc \in {"select_save", "auto_save"}
                /\ inv[i].creds.expiresAt > now')
               => loadCredentials(file', now') = inv[i].creds
        /\ (file' # file /\ inv' = inv /\ file'.kind = "json_object")
             => \E token \in Tokens : \E account \in Accounts :
                  /\ token.exp > now'
                  /\ loadCredentials(file', now') =
                       Credentials(token, account.role, account.databases, Undefined)]_vars
  /\ []((file.kind = "json_object" /\ file.fields.expiresAt < now)
          => loadCredentials(file, now) = Null)

\* C8 witness: the record saved with a selection is what the load returns.
C8_Witness ==
  /\ inv[1].pc = "done"
  /\ inv[1].reply.tag = "select_database"
  /\ inv[1].creds # Null
  /\ inv[1].creds.selectedDatabase = "sales_db"
  /\ loadCredentials(file, now) = inv[1].creds

\* C9: clearCredentials never throws, leaves no file, and a second clear
\* changes nothing more; the load after it is null, and an invocation that
\* runs its gate while the file is absent ends with the
\* authentication-required reply.
C9_ClearIdempotent ==
  /\ [](LET once == clearCredentials(file)
            twice == clearCredentials(once.file)
        IN /\ ~once.threw /\ ~twice.threw
           /\ once.file = NoFile
           /\ twice.file = once.file
           /\ loadCredentials(once.file, now) = Null)
  /\ [][\A i \in Invs :
          (inv[i].pc = "idle" /\ inv'[i].pc = "gated" /\ file = NoFile)
            => ~inv'[i].authenticated]_vars
  /\ [](\A i \in Invs :
          (inv[i].pc = "done" /\ inv[i].name # "quarri_auth_status" /\ ~inv[i].authenticated)
            => (inv[i].reply.tag = "auth_required" /\ inv[i].reply.isError))

\* C9 witness: a record had been loaded, the file is gone, and an
\* invocation made since has got the authentication-required reply.
C9_Witness ==
  /\ file = NoFile
  /\ clientToken # NoToken
  /\ inv[1].pc = "done"
  /\ inv[1].name = "quarri_execute_sql"
  /\ inv[1].reply.tag = "auth_required"

\* C10: request() resolves to a value for every outcome of the exchange: a
\* timeout gives {success: false, error: "Request timeout after 60s"}, a
\* network error gives {success: false} with the error's own message, which
\* is not the timeout message, and a non-2xx response gives {success:
\* false} with an error text.
C10_RequestNeverThrows ==
  \A i \in Invs :
    (inv[i].pc = "done" /\ inv[i].outcome.kind # "none")
      => /\ ~inv[i].result.threw
         /\ inv[i].outcome.kind = "abort"
              => (~inv[i].result.success
                    /\ inv[i].result.error = "Request timeout after 60s")
         /\ inv[i].outcome.kind = "network"
              => (~inv[i].result.success
                    /\ inv[i].result.error = inv[i].outcome.message
                    /\ inv[i].result.error # "Request timeout after 60s")
         /\ (inv[i].outcome.kind = "response" /\ inv[i].outcome.status \notin 200..299)
              => (~inv[i].result.success /\ Truthy(inv[i].result.error))

\* C10 witness: a tool call was aborted by its timer.
C10_Witness ==
  /\ inv[1].pc = "done"
  /\ inv[1].outcome.kind = "abort"
  /\ inv[1].result.error = "Request timeout after 60s"

\* C11: a response with a non-2xx status, whatever its body, makes request()
\* resolve to {success: false} whose error is the body's `error` field when
\* the body carries one, and "HTTP <status>: <statusText>" otherwise.
C11_NonOkErrorClaim ==
  \A i \in Invs :
    (inv[i].pc = "done" /\ inv[i].outcome.kind = "response"
       /\ ~responseOk(inv[i].outcome.status))
      => /\ ~inv[i].result.threw
         /\ ~inv[i].result.success
         /\ inv[i].result.error =
              IF inv[i].outcome.body.json = "object" /\ Truthy(inv[i].outcome.body.error)
              THEN inv[i].outcome.body.error
              ELSE "HTTP " \o ToString(inv[i].outcome.status) \o ": "
                     \o StatusText(inv[i].outcome.status)

\* C12: when the remote call of an invocation fails (timeout, network error,
\* non-2xx response, or any other failure the adapter reports), the
\* invocation ends with an error-flagged reply, not with a thrown error and
\* not with a non-error reply, and the reply carries the adapter's error
\* message unchanged: for a dispatched tool the text is "Error: " followed
\* by the message, for quarri_trial_status the message is the `error` of the
\* reply.
C12_FailureReply ==
  \A i \in Invs :
    (inv[i].pc = "done" /\ inv[i].outcome.kind # "none" /\ ~inv[i].result.success)
      => /\ inv[i].reply.kind = "content"
         /\ inv[i].reply.isError
         /\ IF inv[i].name = "quarri_trial_status"
            THEN inv[i].reply.data.error = inv[i].result.error
            ELSE /\ inv[i].reply.data.text[1] = "Error: "
                 /\ inv[i].reply.data.text[2] = inv[i].result.error
                 /\ Len(inv[i].reply.data.text) = 2

\* C12 witness: a tool call got a 500 response with a backend error and has
\* ended with the error reply that carries it.
C12_Witness ==
  /\ inv[1].pc = "done"
  /\ inv[1].name = "quarri_execute_sql"
  /\ inv[1].outcome.kind = "response"
  /\ inv[1].outcome.status = 500
  /\ inv[1].reply.isError
  /\ inv[1].reply.data.text = <<"Error: ", "quota exceeded">>

\* C13: when the HTTP exchange of a dispatched tool ends with a 2xx response
\* whose body is a JSON object that does not itself report a failure, with
\* or without a `success` field, the invocation ends with a reply that is
\* not error-flagged and whose text is formatToolResponse of the body, taken
\* by the external tool name.
C13_SuccessReplyClaim ==
  \A i \in Invs :
    (inv[i].pc = "done" /\ inv[i].name # "quarri_trial_status"
       /\ inv[i].outcome.kind = "response" /\ responseOk(inv[i].outcome.status)
       /\ inv[i].outcome.body.json = "object"
       /\ inv[i].outcome.body.success # "false")
      => /\ inv[i].reply.kind = "content"
         /\ ~inv[i].reply.isError
         /\ inv[i].reply.tag = "tool_result"
         /\ inv[i].reply.data.text = formatToolResponse(inv[i].name, inv[i].outcome.body)

\* C14: quarri_trial_status, quarri_request_reauth and
\* quarri_complete_reauth are exempt from the authentication gate: invoked
\* when no usable credential is loaded, they do not end with the
\* authentication-required reply.
C14_GateExemptClaim ==
  \A i \in Invs :
    (inv[i].pc = "done"
       /\ inv[i].name \in {"quarri_trial_status", "quarri_request_reauth",
                           "quarri_complete_reauth"})
      => inv[i].reply.tag # "auth_required"

Malformed(f) == f.kind \in {"text", "json_null", "json_bare"}

\* C16: a malformed credential file (not JSON, JSON null, or a JSON object
\* lacking the fields of a record) is treated as an absent credential:
\* for an invocation of quarri_auth_status, quarri_list_databases,
\* quarri_select_database or a remote tool made over it, loadCredentials
\* returns null and the invocation ends with a reply, not with an exception.
C16_MalformedFileClaim ==
  \A i \in Invs :
    (inv[i].pc = "done" /\ Malformed(file)
       /\ inv[i].name \in {"quarri_auth_status", "quarri_list_databases",
                           "quarri_select_database", "quarri_execute_sql"})
      => /\ loadCredentials(file, now) = Null
         /\ inv[i].reply.kind = "content"

\* The file holds a usable record without a selection and without databases.
NoDatabaseAvailable(f, t) ==
  /\ Usable(f, t)
  /\ "selectedDatabase" \notin DOMAIN f.fields
  /\ f.fields.databases = <<>>

\* C17: over a usable credential that has no selected database and an empty
\* databases list, the invocation of a registered remote tool goes to the
\* database check and ends there with the error-flagged reply "No database
\* selected. ..."; it issues no HTTP call and its steps leave the credential
\* file unchanged.
C17_NoDatabaseReply ==
  /\ [][\A i \in Invs :
          /\ (Stepped(i) /\ inv[i].pc = "gated" /\ inv[i].authenticated
                /\ inv[i].name \in DOMAIN TOOL_NAME_MAP /\ inv[i].name \notin LocalTools
                /\ NoDatabaseAvailable(file, now))
               => /\ inv'[i].pc = "check_db"
                  /\ inv'[i].calls = 0
                  /\ file' = file
          /\ (Stepped(i) /\ inv[i].pc = "check_db" /\ NoDatabaseAvailable(file, now))
               => /\ inv'[i].pc = "done"
                  /\ inv'[i].reply = Reply("no_database", TRUE, [text |-> NoDatabaseText])
                  /\ inv'[i].calls = 0
                  /\ inv'[i].call = NoCall
                  /\ file' = file]_vars
  /\ [](\A i \in Invs :
          (inv[i].pc = "done" /\ inv[i].reply.tag = "no_database")
            => (inv[i].reply.isError /\ inv[i].calls = 0))

\* C17 witness: quarri_execute_sql has ended with the no-database reply over
\* a usable record whose databases list is empty.
C17_Witness ==
  /\ inv[1].pc = "done"
  /\ inv[1].name = "quarri_execute_sql"
  /\ inv[1].reply.tag = "no_database"
  /\ inv[1].calls = 0
  /\ NoDatabaseAvailable(file, now)

\* C18: a successful quarri_select_database whose argument matches an entry
\* of databases by database_name or by display_name replies {success: true,
\* message: "Selected database: <name>"} without the error flag, where
\* <name> is what getSelectedDatabase() returns right after the save.
C18_SelectMessageClaim ==
  [][\A i \in Invs :
       (Stepped(i) /\ inv[i].pc = "select_save"
          /\ Usable(file', now') /\ Matches(file'.fields.databases, inv[i].arg))
         => /\ inv'[i].reply.kind = "content"
            /\ ~inv'[i].reply.isError
            /\ inv'[i].reply.data.success
            /\ [type |-> "string", value |-> inv'[i].reply.data.message.selected]
                 = getSelectedDatabase(file', now')]_vars

\* C19: the text of a successful quarri_execute_sql whose result has n rows
\* is, for n = 0, exactly the no-results message; for n >= 1, a table with
\* the header, the separator and the first min(n, 20) rows in order as data
\* rows, one cell per column; the table has no footer for n <= 20 and the
\* footer "... and <n - 20> more rows" for n > 20.  The columns are
\* result.columns when the result has them, the keys of the first row
\* otherwise.
C19_TableFormat ==
  \A i \in Invs :
    (inv[i].pc = "done" /\ inv[i].name = "quarri_execute_sql"
       /\ inv[i].reply.tag = "tool_result"
       /\ "rows" \in DOMAIN inv[i].outcome.body)
      => LET rows == inv[i].outcome.body.rows.items
             n == Len(rows)
             columns == IF "columns" \in DOMAIN inv[i].outcome.body
                        THEN inv[i].outcome.body.columns.items ELSE <<"id", "total">>
             shown == IF n > 20 THEN 20 ELSE n
             text == inv[i].reply.data.text
         IN IF n = 0
            THEN text = [kind |-> "literal", text |-> "No results returned."]
            ELSE /\ text.kind = "table"
                 /\ text.header = columns
                 /\ Len(text.separator) = Len(columns)
                 /\ Len(text.dataRows) = shown
                 /\ \A k \in 1..shown :
                      /\ Len(text.dataRows[k]) = Len(columns)
                      /\ \A c \in 1..Len(columns) :
                           text.dataRows[k][c] = ToString(rows[k][columns[c]])
                 /\ text.footer = IF n > 20
                                  THEN <<"... and ", ToString(n - 20), " more rows">>
                                  ELSE <<>>

\* C19 witness: a result of more than 20 rows without a column list was
\* rendered with 20 data rows and the footer.
C19_Witness ==
  /\ inv[1].pc = "done"
  /\ inv[1].name = "quarri_execute_sql"
  /\ inv[1].reply.tag = "tool_result"
  /\ "rows" \in DOMAIN inv[1].outcome.body
  /\ "columns" \notin DOMAIN inv[1].outcome.body
  /\ Len(inv[1].outcome.body.rows.items) = MaxRows
  /\ Len(inv[1].reply.data.text.dataRows) = 20
  /\ inv[1].reply.data.text.header = <<"id", "total">>
  /\ inv[1].reply.data.text.footer = <<"... and ", ToString(MaxRows - 20), " more rows">>

\* C20: the load-modify-save of quarri_select_database is not torn by the
\* whole-record saves and clears of the other process.  When it saves, the
\* stored content becomes what a serial order of the operations gives:
\* either the content the other process wrote last (the selection ran
\* first), or the selection applied to the content now stored (the selection
\* ran last), so that a token the other process has written in the meantime
\* is not replaced by the one the selection had read.
C20_SelectNotTornClaim ==
  [][\A i \in Invs :
       (Stepped(i) /\ inv[i].pc = "select_save")
         => \/ file' = file
            \/ /\ file.kind = "json_object"
               /\ setSelectedDatabaseOk(JSONparse(file), inv[i].arg)
               /\ file' = saveCredentials(setSelectedDatabaseRecord(JSONparse(file), inv[i].arg))]_vars

\* The file holds a well-formed record whose expiresAt is in the past.
Expired(f, t) == f.kind = "json_object" /\ f.fields.expiresAt < t

\* C21: over an expired record loadCredentials returns null and the steps
\* of an invocation that load it leave the file as it is (every step but a
\* save does); loadExpiredEmail returns the stored email exactly when the
\* file holds a record whose expiresAt is in the past, and null for a
\* missing file, a malformed one and a record that is still valid.
C21_ExpiredKeepsEmail ==
  /\ [](Expired(file, now) => loadCredentials(file, now) = Null)
  /\ [](loadExpiredEmail(file, now) =
          IF Expired(file, now)
          THEN [type |-> "string", value |-> file.fields.email]
          ELSE Null)
  /\ [][\A i \in Invs :
          (Stepped(i) /\ Expired(file, now)
             /\ inv[i].pc \notin {"select_save", "auto_save"})
            => /\ file' = file
               /\ loadExpiredEmail(file', now') = [type |-> "string", value |-> file.fields.email]
               /\ inv[i].pc = "idle" => ~inv'[i].authenticated]_vars

\* C21 witness: an invocation has been refused over an expired record, the
\* record is still in the file and its email is retrievable.
C21_Witness ==
  /\ Expired(file, now)
  /\ inv[1].pc = "done"
  /\ inv[1].name = "quarri_execute_sql"
  /\ inv[1].reply.tag = "auth_required"
  /\ loadCredentials(file, now) = Null
  /\ loadExpiredEmail(file, now) = [type |-> "string", value |-> "user@quarri.ai"]

\* C22: an I/O error while the credential file is written is caught inside
\* saveCredentials: whatever the write does, the save step of a
\* quarri_select_database invocation ends the invocation with a reply, not
\* with an exception.
C22_SaveErrorCaughtClaim ==
  [][\A i \in Invs :
       (Stepped(i) /\ inv[i].pc = "select_save")
         => /\ inv'[i].pc = "done"
            /\ inv'[i].reply.kind = "content"]_vars

\* C23: formatToolResponse never fails.  For every tool name and every
\* payload shape the call returns a text and does not throw, and a tool
\* name without an arm of its own gets the JSON rendering of the payload.
C23_FormatterTotalClaim ==
  fmt.pc = "returned"
    => /\ fmt.out.kind # "threw"
       /\ fmt.toolName = "quarri_list_tables"
            => fmt.out = [kind |-> "json", value |-> fmt.result]

\* C24: startup is fail-open.  The server gets connected; the health probe
\* carries no Authorization header; the process never exits; once connected
\* every idle slot accepts an invocation when the event loop is free,
\* whether the probe is still pending, has succeeded or has failed; and the step in which the probe
\* settles changes nothing but the log, to which it adds at most a warning.
C24_StartupFailOpen ==
  /\ <>Connected
  /\ [](main.probe.sent => main.probe.authorization = authorization(FALSE, clientToken))
  /\ [](~main.exited)
  /\ [](main.pc # "start"
          => \A i \in Invs : (inv[i].pc = "idle" /\ Turn(i)) => ENABLED Accept(i))
  /\ [][main.pc = "serving" /\ main'.pc = "probed"
          => /\ UNCHANGED <<file, now, clientToken, inv, cli, fmt>>
             /\ ~main'.exited
             /\ \/ main'.log = main.log
                \/ main'.log = Append(main.log, "Warning: Could not connect to Quarri API")
                \/ main'.log = Append(main.log, "Warning: Health check failed")]_vars

\* C24 witness: the probe has failed, which is logged, and an invocation
\* taken afterwards has got its answer from the backend while another one
\* is being handled.
C24_Witness ==
  /\ main.pc = "probed"
  /\ main.log = <<"Quarri MCP server started", "Warning: Could not connect to Quarri API">>
  /\ inv[1].pc = "done"
  /\ inv[1].reply.kind = "content"
  /\ inv[1].reply.tag = "trial_status"
  /\ inv[2].pc = "gated"

\* C25: every remote call eventually returns.  An exchange that has been
\* sent comes to its end, with a success or a failure value, whatever the
\* backend does or fails to do in any of its phases.
C25_CallReturnsClaim ==
  \A i \in Invs : (inv[i].pc \in {"fetch", "body"}) ~> (inv[i].pc = "done")

\* C26: every remote tool call of the dispatcher is a POST to
\* /api/cli/tool/<internal name of the invoked tool>; its body carries the
\* invocation's arguments unchanged and, as database_name, the selected
\* database (the explicit selection, else the first database) of the
\* credential the invocation passed the gate with; its Authorization header
\* is the token of that same credential, attached because a token is set.
C26_ToolCallShapeClaim ==
  \A i \in Invs :
    (inv[i].pc = "fetch" /\ inv[i].name = "quarri_execute_sql")
      => /\ inv[i].call.method = "POST"
         /\ inv[i].call.path = "/api/cli/tool/" \o TOOL_NAME_MAP[inv[i].name]
         /\ inv[i].call.body.args = inv[i].arg
         /\ inv[i].call.authorization = inv[i].gate.token
         /\ inv[i].call.authorization # NoToken
         /\ inv[i].gate.db # Null
              => /\ "database_name" \in DOMAIN inv[i].call.body
                 /\ inv[i].call.body.database_name = inv[i].gate.db.value

\* C29: under any interleaving of the invocations that share the client and
\* of the rewrites of the credential file by the other process, the token
\* sent with an invocation's remote call is the token this invocation read
\* in its own gate.
C29_OwnTokenSentClaim ==
  \A i \in Invs :
    (inv[i].pc = "fetch" /\ inv[i].call.sent)
      => inv[i].call.authorization = inv[i].gate.token

\* C27: a credential record is created or replaced only when an
\* authentication exchange succeeds.  In the login, verify, signup and
\* invite flows the file is written only in the step in which
\* verifyCode / completeSignup / verifyInvite has returned success, and
\* with the record of that answer; every path that ends the command
\* otherwise (invalid email, failed code request, invalid code, failed
\* verification) leaves the stored record as it was.
C27_SaveOnlyOnSuccess ==
  /\ [][(file' # file /\ file' # NoFile)
          => /\ cli.pc = "verifying"
             /\ cli'.pc = "authenticated"
             /\ cli'.result.success
             /\ file' = saveCredentials(Credentials(cli'.result.token, cli'.result.user,
                                                    cli'.result.databases, Undefined))]_vars
  /\ [][(cli.pc # "exited" /\ cli'.pc = "exited") => file' = file]_vars

\* C27 witness: a verification has failed and the record stored before is
\* still there.
C27_Witness ==
  /\ cli.pc = "exited"
  /\ cli.flow = "login"
  /\ cli.message = "Verification failed"
  /\ file = LoggedInFile

\* C28: every tool the listing advertises can be dispatched.  An invocation
\* of a name of TOOL_DEFINITIONS, with a usable credential stored, is handled by the
\* dispatcher itself or resolved through TOOL_NAME_MAP, and never ends with
\* the method-not-found error 'Unknown tool'.
C28_ListedDispatchableClaim ==
  \A i \in Invs :
    (inv[i].pc = "done" /\ inv[i].name \in TOOL_DEFINITIONS /\ Usable(file, now))
      => ~(inv[i].reply.kind = "thrown" /\ inv[i].reply.tag = "MethodNotFound")

\* C30: a failed quarri_select_database.  When the stored record is usable,
\* the argument is neither the database_name nor the display_name of one of
\* its databases and the role is not super_admin, the invocation ends with
\* the invalid-request error whose message names the database asked for,
\* has issued no remote call, and the stored record, an earlier selection
\* included, is as it was.
C30_SelectFailure ==
  [][\A i \in Invs :
       (/\ inv[i].pc = "gated" /\ inv[i].name = "quarri_select_database"
        /\ inv[i].authenticated /\ Stepped(i)
        /\ Usable(file, now)
        /\ ~Matches(file.fields.databases, inv[i].arg)
        /\ file.fields.role # "super_admin")
         => /\ inv'[i].pc = "done"
            /\ inv'[i].reply =
                 Thrown("InvalidRequest",
                        "Database '" \o (IF inv[i].arg = Undefined THEN "undefined"
                                         ELSE inv[i].arg)
                           \o "' not found or access denied")
            /\ inv'[i].calls = 0
            /\ ~inv'[i].call.sent
            /\ file' = file]_vars

\* C30 witness: a selection of a database the record does not list has been
\* refused while the record holds an earlier selection.
C30_Witness ==
  /\ inv[1].pc = "done"
  /\ inv[1].name = "quarri_select_database"
  /\ inv[1].arg = "nope"
  /\ inv[1].reply.kind = "thrown"
  /\ inv[1].reply.tag = "InvalidRequest"
  /\ inv[1].calls = 0
  /\ file.kind = "json_object"
  /\ "selectedDatabase" \in DOMAIN file.fields
  /\ file.fields.selectedDatabase = "ops_db"
  /\ file.fields.role = "user"
====
